---- MODULE Spec2Model ----
(***************************************************************************)
(* A model of the AtCoder problem extraction engine of scraper.py:         *)
(* AtCoderScraper._clean_section (the content normalizer) and              *)
(* AtCoderScraper.get_problem_detail (navigator, classifier, sample        *)
(* pairing and metadata extraction), and of the endpoint get_problem of    *)
(* main.py, which serves a problem from storage/contests.json and fills in *)
(* its content with get_problem_detail.                                    *)
(*                                                                         *)
(* Text is a sequence of one-character strings.  A keyword literal of the  *)
(* source that is only ever matched as a whole ("Time Limit", "Score", a   *)
(* word of a heading) is one element of such a sequence.  Japanese words   *)
(* are written in romaji, cut where the source's keywords overlap:         *)
(* nyuryoku-rei is the sample input heading, shutsuryoku-rei the sample    *)
(* output heading, shutsuryoku-rei-no-setsumei the explanation heading.    *)
(***************************************************************************)
EXTENDS Naturals, Sequences, FiniteSets, TLC

VARIABLES
  pc,              \* position in get_problem_detail / in the normalizer run
  doc,             \* the parsed document (soup), an input
  lang_content,    \* the selected content root: "en", "ja", "all" or "none"
  sections,        \* the sections dict (the five classified fields)
  samples,         \* sections['samples']
  current_sample,  \* the partial sample case, open = FALSE for None
  idx,             \* number of parts of the content root already traversed
  score,           \* extracted score
  time_limit,      \* extracted time limit
  memory_limit,    \* extracted memory limit
  result,          \* the returned ProblemDetailModel, made = FALSE before
  raised,          \* the exception that left the call, "" if none
  body,            \* the section Tag handed to _clean_section (heap object)
  body0,           \* the same Tag as it was before the first call
  outputs,         \* the strings the calls of _clean_section returned
  storage,         \* the file storage/contests.json
  request,         \* the last request to get_problem and what the site served
  response,        \* the answer to the last request
  extractions,     \* number of calls of get_problem_detail made by get_problem
  writes,          \* number of times storage/contests.json was written
  now              \* the clock read by datetime.now()

\* the state of the endpoint
apivars == <<storage, request, response, extractions, writes, now>>

vars == <<pc, doc, lang_content, sections, samples, current_sample, idx,
          score, time_limit, memory_limit, result, raised, body, body0,
          outputs, storage, request, response, extractions, writes, now>>

(***************************************************************************)
(* Bounds of the model.                                                    *)
(***************************************************************************)
MaxParts == 3
MaxTexts == 2
MaxKids == 2
MaxCalls == 2
MaxLocaleParts == 2
MaxContests == 2
MaxProblems == 2
MaxRequests == 2

(***************************************************************************)
(* Python str operations, on sequences of characters.                      *)
(***************************************************************************)
NL == "\n"

IsSpace(c) == c \in {" ", NL}

RECURSIVE lstrip(_)
lstrip(s) ==
  IF s # <<>> /\ IsSpace(Head(s)) THEN lstrip(Tail(s)) ELSE s

RECURSIVE rstrip(_)
rstrip(s) ==
  IF s # <<>> /\ IsSpace(s[Len(s)]) THEN rstrip(SubSeq(s, 1, Len(s) - 1)) ELSE s

strip(s) == lstrip(rstrip(s))

\* sep.join(items)
RECURSIVE join(_, _)
join(sep, items) ==
  IF items = <<>> THEN <<>>
  ELSE IF Len(items) = 1 THEN items[1]
  ELSE items[1] \o sep \o join(sep, Tail(items))

\* text.splitlines(): a final line break opens no further line
RECURSIVE splitlines_from(_, _)
splitlines_from(s, cur) ==
  IF s = <<>> THEN (IF cur = <<>> THEN <<>> ELSE <<cur>>)
  ELSE IF Head(s) = NL THEN <<cur>> \o splitlines_from(Tail(s), <<>>)
  ELSE splitlines_from(Tail(s), Append(cur, Head(s)))

splitlines(s) == splitlines_from(s, <<>>)

\* needle in hay
contains(hay, needle) ==
  \E i \in 0..(Len(hay) - Len(needle)) :
    \A j \in 1..Len(needle) : hay[i + j] = needle[j]

(***************************************************************************)
(* The document tree of BeautifulSoup: an element has a name, a class, a   *)
(* data-tex attribute and children; a NavigableString has name "#text".    *)
(***************************************************************************)
Text(s) == [name |-> "#text", cls |-> "", tex |-> <<>>, text |-> s, kids |-> <<>>]

Elem(n, k) == [name |-> n, cls |-> "", tex |-> <<>>, text |-> <<>>, kids |-> k]

ElemC(n, c, k) == [name |-> n, cls |-> c, tex |-> <<>>, text |-> <<>>, kids |-> k]

ElemT(n, t, k) == [name |-> n, cls |-> "katex", tex |-> t, text |-> <<>>, kids |-> k]

IsTag(n) == n.name # "#text"

\* the strings below a node, in document order
RECURSIVE all_strings(_)
all_strings(n) ==
  IF ~IsTag(n) THEN <<n.text>>
  ELSE LET RECURSIVE of_kids(_)
           of_kids(k) == IF k = <<>> THEN <<>>
                         ELSE all_strings(Head(k)) \o of_kids(Tail(k))
       IN  of_kids(n.kids)

NonEmpty(s) == s # <<>>

\* Tag.get_text(separator, strip)
get_text(n, separator, strip_each) ==
  LET raw == all_strings(n)
      cut == [i \in 1..Len(raw) |-> strip(raw[i])]
  IN  IF strip_each THEN join(separator, SelectSeq(cut, NonEmpty))
      ELSE join(separator, raw)

\* tag.string = s: the children are replaced by one string
set_string(n, s) == [n EXCEPT !.kids = <<Text(s)>>]

\* the element nodes below a node, in document order (Tag.select / find_all)
RECURSIVE descendants(_)
descendants(n) ==
  LET RECURSIVE of_kids(_)
      of_kids(k) ==
        IF k = <<>> THEN <<>>
        ELSE (IF IsTag(Head(k)) THEN <<Head(k)>> \o descendants(Head(k)) ELSE <<>>)
             \o of_kids(Tail(k))
  IN  of_kids(n.kids)

(***************************************************************************)
(* AtCoderScraper._clean_section, step by step on the copied tree.         *)
(***************************************************************************)
\* faulty variant: no copy, the normalizer rewrites the Tag it was given
AliasedCopy(section) == [ref |-> "same", tree |-> section]

\* copy.deepcopy(section): the normalizer works on the copy ("copy"), not on
\* the Tag it was given ("same")
deepcopy(section) == [ref |-> "copy", tree |-> section]

\* select('.div-btn-copy, .btn-copy, script, .btn-copy-all')
IsDecoration(n) ==
  IsTag(n) /\ (n.cls \in {"div-btn-copy", "btn-copy", "btn-copy-all"} \/ n.name = "script")

KeptNode(n) == ~IsDecoration(n)

\* remove_elem.decompose() for every match
RECURSIVE remove_decoration(_)
remove_decoration(n) ==
  LET kept == SelectSeq(n.kids, KeptNode)
  IN  [n EXCEPT !.kids = [i \in 1..Len(kept) |->
                            IF IsTag(kept[i]) THEN remove_decoration(kept[i]) ELSE kept[i]]]

\* select('var, span.katex, span.tex-span')
IsMath(n) ==
  IsTag(n) /\ (n.name = "var" \/ (n.name = "span" /\ n.cls \in {"katex", "tex-span"}))

\* math.get('data-tex', '') or math.get_text(strip=True)
formula_of(n) == IF n.tex # <<>> THEN n.tex ELSE get_text(n, <<>>, TRUE)

\* math.string = f"${formula}$"; a match below a rewritten match is detached
RECURSIVE wrap_math(_)
wrap_math(n) ==
  [n EXCEPT !.kids = [i \in 1..Len(n.kids) |->
     LET k == n.kids[i]
     IN  IF ~IsTag(k) THEN k
         ELSE IF IsMath(k) /\ formula_of(k) # <<>>
              THEN set_string(k, <<"$">> \o formula_of(k) \o <<"$">>)
              ELSE wrap_math(k)]]

\* the backquote character, which a TLA+ string cannot hold
Backquote == "BACKQUOTE"

Fence == <<Backquote, Backquote, Backquote>>

\* pre.string = line break, fence, line break, pre_text, line break, fence, line break
RECURSIVE fence_pre(_)
fence_pre(n) ==
  [n EXCEPT !.kids = [i \in 1..Len(n.kids) |->
     LET k == n.kids[i]
         pre_text == strip(get_text(k, <<>>, FALSE))
     IN  IF ~IsTag(k) THEN k
         ELSE IF k.name = "pre" /\ pre_text # <<>>
              THEN set_string(k, <<NL>> \o Fence \o <<NL>> \o pre_text \o <<NL>> \o Fence \o <<NL>>)
              ELSE fence_pre(k)]]

\* code.string = code_text between two backticks
RECURSIVE tick_code(_)
tick_code(n) ==
  [n EXCEPT !.kids = [i \in 1..Len(n.kids) |->
     LET k == n.kids[i]
         code_text == strip(get_text(k, <<>>, FALSE))
     IN  IF ~IsTag(k) THEN k
         ELSE IF k.name = "code" /\ code_text # <<>>
              THEN set_string(k, <<Backquote>> \o code_text \o <<Backquote>>)
              ELSE tick_code(k)]]

IsTr(n) == n.name = "tr"

IsTh(n) == n.name = "th"

IsTd(n) == n.name = "td"

\* [x.get_text(strip=True) for x in cells]
cell_texts(cells) == [i \in 1..Len(cells) |-> get_text(cells[i], <<>>, TRUE)]

\* one markdown row: the cells between pipes, joined by space pipe space
table_row(cells) == <<"|", " ">> \o join(<<" ", "|", " ">>, cells) \o <<" ", "|">>

\* the separator row: a pipe, then three dashes and a pipe per header cell
RECURSIVE separator_row(_)
separator_row(n) ==
  IF n = 0 THEN <<"|">> ELSE separator_row(n - 1) \o <<"-", "-", "-", "|">>

\* table.select('tr th')
RECURSIVE header_cells(_)
header_cells(trs) ==
  IF trs = <<>> THEN <<>>
  ELSE SelectSeq(descendants(Head(trs)), IsTh) \o header_cells(Tail(trs))

\* the rows of one table: header and separator if there is a header, then one
\* row per tr that has td cells
RECURSIVE data_rows(_)
data_rows(trs) ==
  IF trs = <<>> THEN <<>>
  ELSE LET cells == cell_texts(SelectSeq(descendants(Head(trs)), IsTd))
       IN  (IF cells # <<>> THEN <<table_row(cells)>> ELSE <<>>) \o data_rows(Tail(trs))

table_rows(table) ==
  LET trs == SelectSeq(descendants(table), IsTr)
      header == cell_texts(header_cells(trs))
  IN  (IF header # <<>> THEN <<table_row(header), separator_row(Len(header))>> ELSE <<>>)
      \o data_rows(trs)

\* table.string = the rows joined by line breaks, between two line breaks
RECURSIVE markdown_tables(_)
markdown_tables(n) ==
  [n EXCEPT !.kids = [i \in 1..Len(n.kids) |->
     LET k == n.kids[i]
     IN  IF ~IsTag(k) THEN k
         ELSE IF k.name = "table" /\ table_rows(k) # <<>>
              THEN set_string(k, <<NL>> \o join(<<NL>>, table_rows(k)) \o <<NL>>)
              ELSE markdown_tables(k)]]

\* br.replace_with(line break)
RECURSIVE replace_br(_)
replace_br(n) ==
  [n EXCEPT !.kids = [i \in 1..Len(n.kids) |->
     LET k == n.kids[i]
     IN  IF ~IsTag(k) THEN k
         ELSE IF k.name = "br" THEN Text(<<NL>>)
         ELSE replace_br(k)]]

\* the loop over section.children: each child with visible text, then a line break
RECURSIVE children_text(_)
children_text(kids) ==
  IF kids = <<>> THEN <<>>
  ELSE LET child == Head(kids)
           child_text == IF IsTag(child) THEN get_text(child, <<NL>>, FALSE) ELSE child.text
       IN  (IF strip(child_text) # <<>> THEN child_text \o <<NL>> ELSE <<>>)
           \o children_text(Tail(kids))

\* the re-flow loop: consecutive non-blank lines become one block joined by
\* single spaces, a blank line after a block leaves one empty entry
RECURSIVE reflow(_, _)
reflow(lines, current_block) ==
  IF lines = <<>>
  THEN (IF current_block # <<>> THEN <<join(<<" ">>, current_block)>> ELSE <<>>)
  ELSE LET line == rstrip(Head(lines))
       IN  IF line # <<>> THEN reflow(Tail(lines), Append(current_block, line))
           ELSE IF current_block # <<>>
                THEN <<join(<<" ">>, current_block), <<>>>> \o reflow(Tail(lines), <<>>)
                ELSE reflow(Tail(lines), current_block)

\* the returned generator: a blank entry stays only between two blocks
RECURSIVE kept_lines(_, _)
kept_lines(lines, i) ==
  IF i > Len(lines) THEN <<>>
  ELSE (IF lines[i] # <<>>
           \/ (i > 1 /\ i < Len(lines) /\ lines[i - 1] # <<>> /\ lines[i + 1] # <<>>)
        THEN <<lines[i]>> ELSE <<>>)
       \o kept_lines(lines, i + 1)

\* the tree after all rewriting steps of _clean_section
cleaned_tree(tree) ==
  replace_br(markdown_tables(tick_code(fence_pre(wrap_math(remove_decoration(tree))))))

\* the lines _clean_section returns for a section Tag
clean_lines(tree) ==
  kept_lines(reflow(splitlines(children_text(cleaned_tree(tree).kids)), <<>>), 1)

\* _clean_section(section): the returned string, the Tag object it rewrote
\* and that object's tree after the call
_clean_section(section) ==
  LET work == deepcopy(section)
  IN  [text |-> join(<<NL>>, clean_lines(work.tree)),
       ref  |-> work.ref,
       tree |-> cleaned_tree(work.tree)]

(***************************************************************************)
(* The document handed to get_problem_detail.                              *)
(*   container  whether '#task-statement' exists                           *)
(*   spans      the locale spans 'span.lang-en' / 'span.lang-ja' in it     *)
(*   parts      the div.part blocks of the container in document order,    *)
(*              each in one span ("en", "ja") or outside them ("loose")    *)
(*   texts      free text nodes in document order, each in a span, loose   *)
(*              in the container, or on the page outside it ("page")       *)
(* The page heading (title_elem) is read from the page alone and feeds no  *)
(* other field; it is left out.                                            *)
(***************************************************************************)
Part(region, title, tree) ==
  [region |-> region, h3 |-> TRUE, title |-> title, section |-> TRUE, body |-> tree]

\* a div.part without h3
PartNoHeading(region, tree) ==
  [region |-> region, h3 |-> FALSE, title |-> <<>>, section |-> TRUE, body |-> tree]

\* a div.part without section
PartNoSection(region, title) ==
  [region |-> region, h3 |-> TRUE, title |-> title, section |-> FALSE,
   body |-> ""]

TextNode(region, s) == [region |-> region, text |-> s]

\* for lang in ['en', 'ja']
LocalePreference == <<"en", "ja">>

\* the first locale of the preference list whose span exists, else the whole
\* container
RECURSIVE first_locale(_, _)
first_locale(d, langs) ==
  IF langs = <<>> THEN "all"
  ELSE IF Head(langs) \in d.spans THEN Head(langs)
  ELSE first_locale(d, Tail(langs))

\* faulty variant: the preference list reversed
JaFirst(d) == first_locale(d, <<"ja", "en">>)

select_lang(d) == first_locale(d, LocalePreference)

InRoot(root, node) == node.region # "page" /\ (root = "all" \/ node.region = root)

\* lang_content.select('div.part')
root_parts(d, root) ==
  LET in_root(p) == InRoot(root, p) IN SelectSeq(d.parts, in_root)

\* the text nodes below the content root
root_texts(d, root) ==
  LET in_root(t) == InRoot(root, t) IN SelectSeq(d.texts, in_root)

\* faulty variant: the container test left out
NeverMissing(d) == FALSE

\* if not task_statement
container_missing(d) == ~d.container

(***************************************************************************)
(* Metadata: score, time limit, memory limit.                              *)
(***************************************************************************)
Digits == {"0", "1", "2", "3", "4", "5", "6", "7", "8", "9"}

DigitValue(c) ==
  CASE c = "0" -> 0 [] c = "1" -> 1 [] c = "2" -> 2 [] c = "3" -> 3 [] c = "4" -> 4
    [] c = "5" -> 5 [] c = "6" -> 6 [] c = "7" -> 7 [] c = "8" -> 8 [] c = "9" -> 9

\* int(digits)
RECURSIVE to_int(_)
to_int(ds) ==
  IF ds = <<>> THEN 0 ELSE 10 * to_int(SubSeq(ds, 1, Len(ds) - 1)) + DigitValue(ds[Len(ds)])

RECURSIVE drop_trailing_zeros(_)
drop_trailing_zeros(ds) ==
  IF ds # <<>> /\ ds[Len(ds)] = "0" THEN drop_trailing_zeros(SubSeq(ds, 1, Len(ds) - 1)) ELSE ds

\* float(whole.frac): the value as its whole part and its fraction digits
to_float(whole, frac) == [whole |-> to_int(whole), frac |-> drop_trailing_zeros(frac)]

\* the longest run of digits of s that starts at position i
RECURSIVE digit_run(_, _)
digit_run(s, i) ==
  IF i <= Len(s) /\ s[i] \in Digits THEN <<s[i]>> \o digit_run(s, i + 1) ELSE <<>>

HasDigitAfter(s, p) == \E q \in (p + 1)..Len(s) : s[q] \in Digits

FirstDigitAfter(s, p) ==
  CHOOSE q \in (p + 1)..Len(s) :
    s[q] \in Digits /\ \A r \in (p + 1)..(q - 1) : s[r] \notin Digits

\* re.search(keyword + r'[^\d]*(\d+)', s): the leftmost keyword that a digit
\* follows, and the position of the first digit after it
keyword_match(s, keyword) ==
  LET hits == {p \in 1..Len(s) : s[p] = keyword /\ HasDigitAfter(s, p)}
  IN  IF hits = {} THEN [found |-> FALSE, at |-> 0]
      ELSE [found |-> TRUE,
            at |-> FirstDigitAfter(s, CHOOSE p \in hits : \A o \in hits : p <= o)]

\* the optional group (?:\.\d+)? after the digits that end before position i
fraction_at(s, i) ==
  IF i <= Len(s) /\ s[i] = "." THEN digit_run(s, i + 1) ELSE <<>>

\* re.findall(r'(\d+)', score_text)[0]
first_number(s) ==
  LET at == {q \in 1..Len(s) : s[q] \in Digits}
  IN  IF at = {} THEN <<>> ELSE digit_run(s, CHOOSE q \in at : \A o \in at : q <= o)

\* the first node of a sequence of text nodes that holds one of the words
RECURSIVE find_text(_, _)
find_text(nodes, words) ==
  IF nodes = <<>> THEN [found |-> FALSE, text |-> <<>>]
  ELSE IF \E i \in 1..Len(Head(nodes).text) : Head(nodes).text[i] \in words
       THEN [found |-> TRUE, text |-> Head(nodes).text]
       ELSE find_text(Tail(nodes), words)

DefaultScore == 100

DefaultTimeLimit == [whole |-> 2, frac |-> <<>>]

DefaultMemoryLimit == 1024

\* score: the first number of the first text node of the content root that
\* holds 'Score' or the Japanese word for it
extract_score(d, root) ==
  LET score_text == find_text(root_texts(d, root), {"Score", "haiten"})
  IN  IF score_text.found /\ first_number(score_text.text) # <<>>
      THEN to_int(first_number(score_text.text))
      ELSE DefaultScore

\* limits_text: the first text node of the container that holds either keyword
limits_text(d) == find_text(root_texts(d, "all"), {"Time Limit", "Memory Limit"})

extract_time_limit(d) ==
  LET t == limits_text(d)
      m == keyword_match(t.text, "Time Limit")
      whole == digit_run(t.text, m.at)
  IN  IF t.found /\ m.found
      THEN to_float(whole, fraction_at(t.text, m.at + Len(whole)))
      ELSE DefaultTimeLimit

extract_memory_limit(d) ==
  LET t == limits_text(d)
      m == keyword_match(t.text, "Memory Limit")
  IN  IF t.found /\ m.found THEN to_int(digit_run(t.text, m.at)) ELSE DefaultMemoryLimit

(***************************************************************************)
(* Section classifier and sample pairing: the body of the loop over parts. *)
(***************************************************************************)
\* 'Sample Input' in title or (nyuryoku-rei) in title
is_sample_input(title) ==
  contains(title, <<"Sample", " ", "Input">>) \/ contains(title, <<"nyuryoku", "rei">>)

\* 'Sample Output' in title or (shutsuryoku-rei) in title
is_sample_output(title) ==
  contains(title, <<"Sample", " ", "Output">>) \/ contains(title, <<"shutsuryoku", "rei">>)

\* 'Sample Explanation' in title or (shutsuryoku-rei-no-setsumei) in title
is_sample_explanation(title) ==
  \/ contains(title, <<"Sample", " ", "Explanation">>)
  \/ contains(title, <<"shutsuryoku", "rei", "no", "setsumei">>)

SectionKeys == <<"statement", "constraints", "input_format", "output_format", "notes">>

\* section_mappings, in the order of the dict
section_mappings ==
  << [key |-> "statement",
      patterns |-> {<<"Problem", " ", "Statement">>, <<"Problem">>,
                    <<"mondai", "bun">>, <<"mondai">>}],
     [key |-> "constraints",
      patterns |-> {<<"Constraints">>, <<"seiyaku">>, <<"seiyaku", "joken">>}],
     [key |-> "input_format",
      patterns |-> {<<"Input">>, <<"Input", " ", "Format">>,
                    <<"nyuryoku">>, <<"nyuryoku", "keishiki">>}],
     [key |-> "output_format",
      patterns |-> {<<"Output">>, <<"Output", " ", "Format">>,
                    <<"shutsuryoku">>, <<"shutsuryoku", "keishiki">>}],
     [key |-> "notes",
      patterns |-> {<<"Note", "s">>, <<"Note">>, <<"Hint">>,
                    <<"chui">>, <<"hinto">>, <<"hosoku">>}] >>

Matches(title, mapping) == \E pattern \in mapping.patterns : contains(title, pattern)

\* the key of the first mapping in the given order that matches the title,
\* "" if none does
RECURSIVE first_match(_, _)
first_match(title, mappings) ==
  IF mappings = <<>> THEN ""
  ELSE IF Matches(title, Head(mappings)) THEN Head(mappings).key
  ELSE first_match(title, Tail(mappings))

\* faulty variant: the last matching key wins
RECURSIVE LastMatch(_, _)
LastMatch(title, mappings) ==
  IF mappings = <<>> THEN ""
  ELSE IF Matches(title, mappings[Len(mappings)]) THEN mappings[Len(mappings)].key
  ELSE LastMatch(title, SubSeq(mappings, 1, Len(mappings) - 1))

MatchLastKey(title) == LastMatch(title, section_mappings)

\* for key, patterns in section_mappings.items(): ... break
match_section(title) == first_match(title, section_mappings)

\* current_sample = None
NoSample == [open |-> FALSE, input |-> <<>>, output |-> <<>>, explanation |-> <<>>]

NewSample(content) ==
  [open |-> TRUE, input |-> content, output |-> <<>>, explanation |-> <<>>]

\* faulty variant: the open case is overwritten, not flushed
InputWithoutFlush(st, content) == [st EXCEPT !.current_sample = NewSample(content)]

\* the sample input branch: flush the open case, open a new one
on_sample_input(st, content) ==
  [st EXCEPT !.samples = IF st.current_sample.open
                         THEN Append(st.samples, st.current_sample) ELSE st.samples,
             !.current_sample = NewSample(content)]

\* faulty variant: an output block opens a case when none is open
OutputOpensCase(st, content) ==
  [st EXCEPT !.current_sample =
     IF st.current_sample.open THEN [st.current_sample EXCEPT !.output = content]
     ELSE [NewSample(<<>>) EXCEPT !.output = content]]

\* the sample output branch
on_sample_output(st, content) ==
  IF st.current_sample.open
  THEN [st EXCEPT !.current_sample.output = content]
  ELSE st

\* the sample explanation branch
on_sample_explanation(st, content) ==
  IF st.current_sample.open
  THEN [st EXCEPT !.current_sample.explanation = content]
  ELSE st

\* the else branch: the first matching key is overwritten
on_section(st, title, content) ==
  LET key == match_section(title)
  IN  IF key # "" THEN [st EXCEPT !.sections[key] = content] ELSE st

Paragraph(s) == Elem("section", <<Elem("p", <<Text(s)>>)>>)

\* the section Tag of a part; the documents name the section bodies they use
SectionTag(name) ==
  CASE name = "A" -> Paragraph(<<"A">>)
    [] name = "B" -> Paragraph(<<" ", "B", NL>>)
    [] name = "C" -> Paragraph(<<"C">>)
    [] name = "blank" -> Paragraph(<<" ">>)
    [] OTHER -> Elem("section", <<>>)

BodyNames == {"A", "B", "C", "blank"}

\* content = self._clean_section(section_tag), for each section body
section_contents == [name \in BodyNames |-> _clean_section(SectionTag(name)).text]

\* content of a part, "" when the part is skipped before normalization
part_content(part) ==
  IF part.h3 /\ part.section THEN section_contents[part.body] ELSE <<>>

\* one iteration of 'for part in parts' on the loop state
\* st = [sections, samples, current_sample]
process_part(st, part) ==
  LET title == part.title
      content == part_content(part)
  IN  IF ~part.h3 \/ ~part.section \/ strip(content) = <<>> THEN st
      ELSE IF is_sample_input(title) THEN on_sample_input(st, content)
      ELSE IF is_sample_output(title) THEN on_sample_output(st, content)
      ELSE IF is_sample_explanation(title) THEN on_sample_explanation(st, content)
      ELSE on_section(st, title, content)

\* faulty variant: and in place of or
KeepOnlyComplete(sample) == strip(sample.input) # <<>> /\ strip(sample.output) # <<>>

\* if sample['input'].strip() or sample['output'].strip()
keep_sample(sample) == strip(sample.input) # <<>> \/ strip(sample.output) # <<>>

\* SampleTestCase(input=..., output=..., explanation=...)
SampleTestCase(sample) ==
  [input |-> strip(sample.input), output |-> strip(sample.output),
   explanation |-> strip(sample.explanation)]

\* the flush of the last case and the clean up of the samples
cleaned_samples(st) ==
  LET all == IF st.current_sample.open THEN Append(st.samples, st.current_sample)
             ELSE st.samples
      kept == SelectSeq(all, keep_sample)
  IN  [i \in 1..Len(kept) |-> SampleTestCase(kept[i])]

EmptySections ==
  [statement |-> <<>>, constraints |-> <<>>, input_format |-> <<>>,
   output_format |-> <<>>, notes |-> <<>>]

NoResult ==
  [made |-> FALSE, statement |-> <<>>, constraints |-> <<>>, input_format |-> <<>>,
   output_format |-> <<>>, notes |-> <<>>, samples |-> <<>>,
   time_limit |-> DefaultTimeLimit, memory_limit |-> DefaultMemoryLimit,
   score |-> DefaultScore]

\* ProblemDetailModel(...)
ProblemDetailModel(st, tl, ml, sc) ==
  [made |-> TRUE,
   statement |-> strip(st.sections.statement),
   constraints |-> strip(st.sections.constraints),
   input_format |-> strip(st.sections.input_format),
   output_format |-> strip(st.sections.output_format),
   notes |-> strip(st.sections.notes),
   samples |-> cleaned_samples(st),
   time_limit |-> tl, memory_limit |-> ml, score |-> sc]

LoopState == [sections |-> sections, samples |-> samples, current_sample |-> current_sample]

(***************************************************************************)
(* The documents and section bodies the model is run on.                   *)
(***************************************************************************)
BodyA == "A"

BodyB == "B"

BodyC == "C"

BodyEmpty == "blank"

TitleSampleInput == <<"Sample", " ", "Input", " ", "1">>

TitleSampleOutput == <<"Sample", " ", "Output", " ", "1">>

TitleSampleExplanation == <<"Sample", " ", "Explanation", " ", "1">>

TitleJaInput == <<"nyuryoku", "rei", " ", "1">>

TitleJaOutput == <<"shutsuryoku", "rei", " ", "1">>

TitleJaExplanation == <<"shutsuryoku", "rei", "no", "setsumei", " ", "1">>

SampleTitles ==
  {TitleSampleInput, TitleSampleOutput, TitleSampleExplanation,
   TitleJaInput, TitleJaOutput, TitleJaExplanation}

SampleBlocks ==
  {Part("loose", TitleSampleInput, BodyA), Part("loose", TitleSampleInput, BodyB),
   Part("loose", TitleSampleInput, BodyEmpty),
   Part("loose", TitleSampleOutput, BodyA), Part("loose", TitleSampleOutput, BodyB),
   Part("loose", TitleSampleExplanation, BodyA),
   Part("loose", TitleJaExplanation, BodyB),
   Part("loose", TitleJaInput, BodyA), Part("loose", TitleJaOutput, BodyB)}

TitleStatement == <<"Problem", " ", "Statement">>

TitleInputOutput == <<"Input", " ", "/", " ", "Output">>

SectionBlocks ==
  {Part("loose", TitleStatement, BodyA), Part("loose", TitleStatement, BodyB),
   Part("loose", TitleStatement, BodyEmpty),
   Part("loose", <<"seiyaku", "joken">>, BodyA),
   Part("loose", <<"Input">>, BodyB),
   Part("loose", <<"Output", " ", "Format">>, BodyA),
   Part("loose", <<"Note", "s">>, BodyB),
   Part("loose", <<"Editorial">>, BodyA),
   Part("loose", TitleInputOutput, BodyC),
   PartNoHeading("loose", BodyC), PartNoSection("loose", TitleStatement)}

Regions == {"en", "ja", "loose"}

BodyOf(region) ==
  CASE region = "en" -> BodyA [] region = "ja" -> BodyB [] OTHER -> BodyC

ScoreOf(region) ==
  CASE region = "en" -> <<"Score", ":", "7">> [] region = "ja" -> <<"haiten", ":", "8">>
    [] OTHER -> <<"Score", ":", "9">>

LocaleBlocks == {Part(r, t, BodyOf(r)) : r \in Regions, t \in {TitleStatement, TitleSampleInput}}

LocaleTexts == {TextNode(r, ScoreOf(r)) : r \in Regions}

MetaTexts ==
  {TextNode("loose", <<"Time Limit", ":", "3">>),
   TextNode("loose", <<"Memory Limit", ":", "6", "4">>),
   TextNode("loose", <<"Time Limit", ":", "2", ".", "5", "0", "/", "Memory Limit", ":", "6", "4">>),
   TextNode("loose", <<"Time Limit", ":", "x", "/", "Memory Limit", ":", "x">>),
   TextNode("loose", <<"Memory Limit", ":", "1", ".", "5">>),
   TextNode("loose", <<"w", "7">>),
   TextNode("loose", <<"Score", ":", "x", "3", "0", "0", ".", "5">>),
   TextNode("page", <<"Time Limit", ":", "4", "/", "Memory Limit", ":", "8">>)}

Document(container, spans, parts, texts) ==
  [container |-> container, spans |-> spans, parts |-> parts, texts |-> texts]

\* a document's nodes lie in the spans it has, loose in the container, or (text)
\* on the page
WellFormed(d) ==
  /\ \A i \in 1..Len(d.parts) : d.parts[i].region \in d.spans \cup {"loose"}
  /\ \A i \in 1..Len(d.texts) : d.texts[i].region \in d.spans \cup {"loose", "page"}

\* the documents the model starts from, by what they exercise: sample pairing,
\* section classification, locale selection, metadata
IsDocument(d) ==
  \/ \E c \in BOOLEAN, k \in 0..MaxParts : \E ps \in [1..k -> SampleBlocks] :
       d = Document(c, {}, ps, <<>>)
  \/ \E c \in BOOLEAN, k \in 1..MaxParts : \E ps \in [1..k -> SectionBlocks] :
       d = Document(c, {}, ps, <<>>)
  \/ \E c \in BOOLEAN, sp \in SUBSET {"en", "ja"}, k \in 1..MaxLocaleParts, n \in 0..MaxTexts :
       \E ps \in [1..k -> LocaleBlocks], ts \in [1..n -> LocaleTexts] :
         /\ WellFormed(Document(c, sp, ps, ts))
         /\ d = Document(c, sp, ps, ts)
  \/ \E c \in BOOLEAN, n \in 1..MaxTexts : \E ts \in [1..n -> MetaTexts] :
       d = Document(c, {}, <<>>, ts)

(***************************************************************************)
(* get_problem_detail as a state machine.                                  *)
(***************************************************************************)
NoBody == Elem("section", <<>>)

\* the endpoint before any request, with no cache file
NoProblem == [id |-> "none"]

NoFile == [exists |-> FALSE, data |-> <<>>]

NoPage == [container |-> FALSE, spans |-> {}, parts |-> <<>>, texts |-> <<>>]

NoRequest ==
  [contest_id |-> "none", problem_id |-> "none", force_refresh |-> FALSE,
   site |-> [up |-> FALSE, page |-> NoPage]]

NoResponse == [status |-> 0, problem |-> NoProblem, detail |-> ""]

Idle ==
  /\ storage = NoFile
  /\ request = NoRequest
  /\ response = NoResponse
  /\ extractions = 0
  /\ writes = 0
  /\ now = 1

Init ==
  /\ pc = "start"
  /\ IsDocument(doc)
  /\ lang_content = "none"
  /\ sections = EmptySections
  /\ samples = <<>>
  /\ current_sample = NoSample
  /\ idx = 0
  /\ score = DefaultScore
  /\ time_limit = DefaultTimeLimit
  /\ memory_limit = DefaultMemoryLimit
  /\ result = NoResult
  /\ raised = ""
  /\ body = NoBody
  /\ body0 = NoBody
  /\ outputs = <<>>
  /\ Idle

\* lines 146-149: no container, the call raises ScraperException
RaiseContentNotFound ==
  /\ pc = "start"
  /\ container_missing(doc)
  /\ pc' = "failed"
  /\ raised' = "ScraperException"
  /\ UNCHANGED <<doc, lang_content, sections, samples, current_sample, idx, score,
                 time_limit, memory_limit, result, body, body0, outputs>>
  /\ UNCHANGED apivars

\* lines 151-160: the content root
SelectLanguage ==
  /\ pc = "start"
  /\ ~container_missing(doc)
  /\ lang_content' = select_lang(doc)
  /\ pc' = "metadata"
  /\ UNCHANGED <<doc, sections, samples, current_sample, idx, score, time_limit,
                 memory_limit, result, raised, body, body0, outputs>>
  /\ UNCHANGED apivars

\* lines 190-220: score and limits
ExtractMetadata ==
  /\ pc = "metadata"
  /\ score' = extract_score(doc, lang_content)
  /\ time_limit' = extract_time_limit(doc)
  /\ memory_limit' = extract_memory_limit(doc)
  /\ pc' = "parts"
  /\ UNCHANGED <<doc, lang_content, sections, samples, current_sample, idx, result,
                 raised, body, body0, outputs>>
  /\ UNCHANGED apivars

\* lines 225-264: one iteration of the loop over the parts of the content root
ProcessPart ==
  /\ pc = "parts"
  /\ idx < Len(root_parts(doc, lang_content))
  /\ LET st == process_part(LoopState, root_parts(doc, lang_content)[idx + 1])
     IN  /\ sections' = st.sections
         /\ samples' = st.samples
         /\ current_sample' = st.current_sample
  /\ idx' = idx + 1
  /\ UNCHANGED <<pc, doc, lang_content, score, time_limit, memory_limit, result,
                 raised, body, body0, outputs>>
  /\ UNCHANGED apivars

\* lines 266-298: flush, clean up, return
ReturnResult ==
  /\ pc = "parts"
  /\ idx = Len(root_parts(doc, lang_content))
  /\ result' = ProblemDetailModel(LoopState, time_limit, memory_limit, score)
  /\ pc' = "done"
  /\ UNCHANGED <<doc, lang_content, sections, samples, current_sample, idx, score,
                 time_limit, memory_limit, raised, body, body0, outputs>>
  /\ UNCHANGED apivars

Next ==
  \/ RaiseContentNotFound
  \/ SelectLanguage
  \/ ExtractMetadata
  \/ ProcessPart
  \/ ReturnResult

Spec == Init /\ [][Next]_vars

(***************************************************************************)
(* _clean_section called repeatedly on one section Tag.                    *)
(***************************************************************************)
Cell(name, s) == Elem(name, <<Text(s)>>)

\* a table with the header cells A, B and one data row 1, 2
TableAB ==
  Elem("table", <<Elem("tr", <<Cell("th", <<"A">>), Cell("th", <<"B">>)>>),
                  Elem("tr", <<Cell("td", <<"1">>), Cell("td", <<"2">>)>>)>>)

\* the children a section body is built from
BodyKids ==
  {Cell("p", <<"A">>),
   Text(<<" ", "B">>),
   Text(<<NL>>),
   Elem("p", <<Text(<<"x">>), Cell("var", <<"n">>)>>),
   ElemT("span", <<"t">>, <<Text(<<"r">>)>>),
   Cell("pre", <<"1", NL, "2">>),
   Cell("code", <<"c">>),
   TableAB,
   Elem("br", <<>>),
   ElemC("span", "btn-copy", <<Text(<<"C">>)>>)}

NoDocument == Document(FALSE, {}, <<>>, <<>>)

InitClean ==
  /\ pc = "clean"
  /\ \E k \in 0..MaxKids : \E kids \in [1..k -> BodyKids] : body = Elem("section", kids)
  /\ body0 = body
  /\ outputs = <<>>
  /\ doc = NoDocument
  /\ lang_content = "none"
  /\ sections = EmptySections
  /\ samples = <<>>
  /\ current_sample = NoSample
  /\ idx = 0
  /\ score = DefaultScore
  /\ time_limit = DefaultTimeLimit
  /\ memory_limit = DefaultMemoryLimit
  /\ result = NoResult
  /\ raised = ""
  /\ Idle

\* one call _clean_section(body): the string it returns, and the Tag after it
CallCleanSection ==
  /\ pc = "clean"
  /\ Len(outputs) < MaxCalls
  /\ LET r == _clean_section(body)
     IN  /\ outputs' = Append(outputs, r.text)
         /\ body' = IF r.ref = "same" THEN r.tree ELSE body
  /\ UNCHANGED <<pc, doc, lang_content, sections, samples, current_sample, idx, score,
                 time_limit, memory_limit, result, raised, body0>>
  /\ UNCHANGED apivars

NextClean == CallCleanSection

SpecClean == InitClean /\ [][NextClean]_vars

(***************************************************************************)
(* Properties of the normalizer, under SpecClean.                          *)
(***************************************************************************)
TableSection == Elem("section", <<TableAB>>)

MarkdownTableLines ==
  << <<"|", " ", "A", " ", "|", " ", "B", " ", "|">>,
     <<"|", "-", "-", "-", "|", "-", "-", "-", "|">>,
     <<"|", " ", "1", " ", "|", " ", "2", " ", "|">> >>

\* C6: a table body with header cells A, B and one data row 1, 2 is
\* normalized to exactly three separate lines: the header row, the separator
\* row and the data row.
C6_TableKeepsThreeLines ==
  (pc = "clean" /\ body0 = TableSection /\ Len(outputs) >= 1)
    => splitlines(outputs[1]) = MarkdownTableLines

\* what the code returns for that table: its three rows, merged by the
\* re-flow into one line with single spaces between them
C6_TableIsMergedIntoOneLine ==
  (pc = "clean" /\ body0 = TableSection /\ Len(outputs) >= 1)
    => splitlines(outputs[1]) = <<join(<<" ">>, MarkdownTableLines)>>

\* C10: _clean_section leaves the section Tag it was given unchanged, and
\* every call on the same Tag returns the same string.
C10_NormalizerIsPure ==
  pc = "clean" =>
    /\ body = body0
    /\ \A i, j \in 1..Len(outputs) : outputs[i] = outputs[j]

\* two calls on a body whose copy the normalizer rewrote (a formula wrapped,
\* a decoration removed), with a visible result
C10_Witness ==
  /\ pc = "clean"
  /\ Len(outputs) = 2
  /\ outputs[1] # <<>>
  /\ cleaned_tree(body0) # body0
  /\ \E i \in 1..Len(body0.kids) : IsMath(body0.kids[i])

(***************************************************************************)
(* Properties of get_problem_detail, under Spec.                           *)
(***************************************************************************)
\* the parts of the selected content root
Parts == root_parts(doc, lang_content)

\* a block with a title and a body whose normalized text is not empty
Accepted(part) == part.h3 /\ part.section /\ strip(part_content(part)) # <<>>

\* the loop over a sequence of parts, from the empty loop state
RECURSIVE run_parts(_)
run_parts(parts) ==
  IF parts = <<>>
  THEN [sections |-> EmptySections, samples |-> <<>>, current_sample |-> NoSample]
  ELSE process_part(run_parts(SubSeq(parts, 1, Len(parts) - 1)), parts[Len(parts)])

\* the members of a set of numbers in increasing order
RECURSIVE Ascending(_)
Ascending(S) ==
  IF S = {} THEN <<>>
  ELSE LET least == CHOOSE x \in S : \A y \in S : x <= y
       IN  <<least>> \o Ascending(S \ {least})

\* C1: a document without the content container makes the call fail with
\* ScraperException; no language is selected, no metadata, section or sample
\* is extracted and no result is returned.
C1_NoContainerFails ==
  ~doc.container =>
    /\ pc \in {"start", "failed"}
    /\ pc = "failed" => raised = "ScraperException"
    /\ pc = "start" => ENABLED RaiseContentNotFound
    /\ ~result.made
    /\ lang_content = "none"
    /\ idx = 0 /\ sections = EmptySections /\ samples = <<>> /\ ~current_sample.open
    /\ score = DefaultScore /\ time_limit = DefaultTimeLimit
    /\ memory_limit = DefaultMemoryLimit

\* the call has failed on a page that has content blocks but no container
C1_Witness ==
  /\ ~doc.container
  /\ pc = "failed"
  /\ raised = "ScraperException"
  /\ Len(doc.parts) > 0

\* the content root the preference list en, ja asks for
PreferredRoot(d) ==
  IF "en" \in d.spans THEN "en" ELSE IF "ja" \in d.spans THEN "ja" ELSE "all"

\* the document cut down to one region
OnlyRegion(d, region) ==
  LET in_region(n) == n.region = region
  IN  [d EXCEPT !.parts = SelectSeq(d.parts, in_region),
                !.texts = SelectSeq(d.texts, in_region)]

\* the texts a result shows: the section fields and the sample fields
ResultTexts(r) ==
  {r.statement, r.constraints, r.input_format, r.output_format, r.notes}
  \cup {r.samples[i].input : i \in 1..Len(r.samples)}
  \cup {r.samples[i].output : i \in 1..Len(r.samples)}
  \cup {r.samples[i].explanation : i \in 1..Len(r.samples)}

\* C2: the content root is the en span if there is one, else the ja span if
\* there is one, else the whole container; the section fields, the samples
\* and the score of the result are those of the parts and texts of that root
\* alone, so with both spans present nothing of the ja span shows.
C2_FirstMatchLocale ==
  /\ pc \notin {"start", "failed"} => lang_content = PreferredRoot(doc)
  /\ pc = "done" =>
       LET root == PreferredRoot(doc)
           only == IF root = "all" THEN doc.parts ELSE OnlyRegion(doc, root).parts
           st == run_parts(only)
       IN  /\ result.statement = strip(st.sections.statement)
           /\ result.constraints = strip(st.sections.constraints)
           /\ result.input_format = strip(st.sections.input_format)
           /\ result.output_format = strip(st.sections.output_format)
           /\ result.notes = strip(st.sections.notes)
           /\ result.samples = cleaned_samples(st)
           /\ result.score = extract_score(IF root = "all" THEN doc
                                           ELSE OnlyRegion(doc, root), "all")
  /\ (pc = "done" /\ doc.spans = {"en", "ja"}) =>
       /\ ResultTexts(result) \subseteq {<<>>, <<"A">>}
       /\ result.score \in {DefaultScore, 7}

\* both spans hold a statement and a score, and the result shows the en ones
C2_Witness ==
  /\ pc = "done"
  /\ doc.spans = {"en", "ja"}
  /\ \E i, j \in 1..Len(doc.parts) :
       /\ i < j
       /\ doc.parts[i].region = "ja" /\ doc.parts[i].title = TitleStatement
       /\ doc.parts[j].region = "en" /\ doc.parts[j].title = TitleStatement
  /\ \E i, j \in 1..Len(doc.texts) :
       i < j /\ doc.texts[i].region = "ja" /\ doc.texts[j].region = "en"
  /\ result.statement = <<"A">>
  /\ result.score = 7

\* a block that opens a sample case
IsOpener(part) == Accepted(part) /\ is_sample_input(part.title)

\* the positions of the openers among the parts
Openers(parts) == {i \in 1..Len(parts) : IsOpener(parts[i])}

\* a titled output or explanation block that no opener precedes
IsOrphan(parts, i) ==
  /\ parts[i].h3
  /\ ~is_sample_input(parts[i].title)
  /\ is_sample_output(parts[i].title) \/ is_sample_explanation(parts[i].title)
  /\ \A j \in 1..(i - 1) : ~IsOpener(parts[j])

\* the parts with the orphan blocks taken out of the document
WithoutOrphans(parts) ==
  LET keep == Ascending({i \in 1..Len(parts) : ~IsOrphan(parts, i)})
  IN  [n \in 1..Len(keep) |-> parts[keep[n]]]

\* C3: the sample cases of the result are in the document order of the
\* sample input openers; before the first opener the pairing state stays
\* Idle, and the result is the one of the document without its orphan
\* output and explanation blocks.
C3_OrderAndOrphans ==
  /\ (pc = "parts" /\ Openers(SubSeq(Parts, 1, idx)) = {}) =>
       (~current_sample.open /\ samples = <<>>)
  /\ pc = "done" =>
       LET at == Ascending(Openers(Parts))
       IN  /\ [n \in 1..Len(result.samples) |-> result.samples[n].input]
                = [n \in 1..Len(at) |-> strip(part_content(Parts[at[n]]))]
           /\ result.samples = cleaned_samples(run_parts(WithoutOrphans(Parts)))

\* an orphan output block first, then two openers with different inputs
C3_Witness ==
  /\ pc = "done"
  /\ Len(Parts) = 3
  /\ Accepted(Parts[1]) /\ IsOrphan(Parts, 1)
  /\ Len(result.samples) = 2
  /\ result.samples[1].input # result.samples[2].input

\* a content block: a part with a title and a body
IsContentBlock(part) == part.h3 /\ part.section

\* the input and output of the cases, by the pairing rule of the claim: each
\* sample input block that counts opens a case, whose output is the body of
\* the last sample output block that counts before the next such input block;
\* cases with no input and no output are dropped
ClaimPairs(parts, Counts(_)) ==
  LET ins == Ascending({i \in 1..Len(parts) :
                          Counts(parts[i]) /\ is_sample_input(parts[i].title)})
      until(n) == IF n < Len(ins) THEN ins[n + 1] ELSE Len(parts) + 1
      outs(n) == {j \in (ins[n] + 1)..(until(n) - 1) :
                    /\ Counts(parts[j])
                    /\ ~is_sample_input(parts[j].title)
                    /\ is_sample_output(parts[j].title)}
      last(S) == CHOOSE x \in S : \A y \in S : y <= x
      pairs == [n \in 1..Len(ins) |->
                  [input |-> strip(part_content(parts[ins[n]])),
                   output |-> IF outs(n) = {} THEN <<>>
                              ELSE strip(part_content(parts[last(outs(n))]))]]
      filled(pair) == pair.input # <<>> \/ pair.output # <<>>
  IN  SelectSeq(pairs, filled)

PairsOf(cases) ==
  [n \in 1..Len(cases) |-> [input |-> cases[n].input, output |-> cases[n].output]]

\* the document "Sample Input 1" -> A, "Sample Output 1" -> B
MinimalSampleParts ==
  <<Part("loose", TitleSampleInput, BodyA), Part("loose", TitleSampleOutput, BodyB)>>

MinimalSampleResult ==
  <<[input |-> <<"A">>, output |-> <<"B">>, explanation |-> <<>>]>>

\* C4 as stated: every content block titled with a sample input keyword flushes the
\* open case and opens a new one, every sample output block sets the output
\* of the case opened by the nearest preceding sample input block.
C4_EveryBlockPairs ==
  pc = "done" => PairsOf(result.samples) = ClaimPairs(Parts, IsContentBlock)

\* C4 as amended: the pairing rule holds of the blocks whose normalized body
\* is not empty (the others are skipped); right after such a sample input
\* block the open case has that input and an empty output and explanation;
\* the minimal document yields exactly one case {A, B, ""}.
C4_AcceptedBlocksPair ==
  /\ pc = "done" => PairsOf(result.samples) = ClaimPairs(Parts, Accepted)
  /\ (pc = "parts" /\ idx > 0 /\ IsOpener(Parts[idx])) =>
       current_sample = [open |-> TRUE, input |-> part_content(Parts[idx]),
                         output |-> <<>>, explanation |-> <<>>]
  /\ (pc = "done" /\ Parts = MinimalSampleParts) => result.samples = MinimalSampleResult

\* an input block flushed a case that had got its output
C4_Witness ==
  /\ pc = "done"
  /\ Len(result.samples) = 2
  /\ result.samples[1].output # <<>>
  /\ result.samples[2].output = <<>>

\* C5: a block titled with a sample explanation keyword of either locale
\* that arrives while a case is open sets the explanation of that case to its
\* normalized body and leaves its input and output, and the flushed cases,
\* unchanged.
C5_ExplanationIsRouted ==
  [][ (/\ pc = "parts"
       /\ idx' = idx + 1
       /\ current_sample.open
       /\ Accepted(Parts[idx + 1])
       /\ ~is_sample_input(Parts[idx + 1].title)
       /\ is_sample_explanation(Parts[idx + 1].title))
      => (/\ current_sample' =
               [current_sample EXCEPT !.explanation = part_content(Parts[idx + 1])]
          /\ samples' = samples) ]_vars

\* the text nodes of the whole page
PageTexts(d) == d.texts

\* the limit the claim reads for a keyword: from the first text node of the
\* document that holds this keyword
ClaimLimitMatch(d, keyword) ==
  LET t == find_text(PageTexts(d), {keyword})
  IN  [text |-> t.text, m |-> keyword_match(t.text, keyword)]

ClaimTimeLimit(d) ==
  LET c == ClaimLimitMatch(d, "Time Limit")
      whole == digit_run(c.text, c.m.at)
  IN  IF c.m.found THEN to_float(whole, fraction_at(c.text, c.m.at + Len(whole)))
      ELSE DefaultTimeLimit

ClaimMemoryLimit(d) ==
  LET c == ClaimLimitMatch(d, "Memory Limit")
  IN  IF c.m.found THEN to_int(digit_run(c.text, c.m.at)) ELSE DefaultMemoryLimit

\* C7: time_limit and memory_limit are extracted independently, each from
\* the first text node of the document that holds its own keyword, and each
\* falls back to its default exactly when that text is absent or unparsable.
C7_LimitsAreIndependent ==
  pc = "done" =>
    /\ result.time_limit = ClaimTimeLimit(doc)
    /\ result.memory_limit = ClaimMemoryLimit(doc)

\* the cases in flush order, the open one last
Flushed == IF current_sample.open THEN Append(samples, current_sample) ELSE samples

InputOnly(case) == strip(case.input) # <<>> /\ strip(case.output) = <<>>

NotBlank(case) == strip(case.input) # <<>> \/ strip(case.output) # <<>>

\* C8: no case of the result has an empty input and an empty output; the
\* result holds, in flush order, the flushed cases that are not blank, and so
\* every case with an input and no output.
C8_BlankCasesDropped ==
  pc = "done" =>
    /\ \A n \in 1..Len(result.samples) :
         result.samples[n].input # <<>> \/ result.samples[n].output # <<>>
    /\ LET kept == SelectSeq(Flushed, NotBlank)
       IN  result.samples = [n \in 1..Len(kept) |-> SampleTestCase(kept[n])]
    /\ Len(SelectSeq(Flushed, InputOnly)) = Len(SelectSeq(result.samples, InputOnly))

\* a case with an input and no output is returned after a complete one
C8_Witness ==
  /\ pc = "done"
  /\ Len(result.samples) = 2
  /\ result.samples[1].output # <<>>
  /\ InputOnly(result.samples[2])
  /\ result.samples[2].input # result.samples[1].input

IsSampleTitle(title) ==
  is_sample_input(title) \/ is_sample_output(title) \/ is_sample_explanation(title)

\* the first key, in the fixed order, one of whose synonyms occurs in the title
ClaimKey(title) ==
  LET hits == {k \in 1..Len(SectionKeys) : Matches(title, section_mappings[k])}
  IN  IF hits = {} THEN "" ELSE SectionKeys[CHOOSE k \in hits : \A o \in hits : k <= o]

\* the body of the last block that counts and is classified to the key
ClaimSection(parts, key, Counts(_)) ==
  LET of_key == {i \in 1..Len(parts) :
                   /\ Counts(parts[i])
                   /\ ~IsSampleTitle(parts[i].title)
                   /\ ClaimKey(parts[i].title) = key}
  IN  IF of_key = {} THEN <<>>
      ELSE part_content(parts[CHOOSE i \in of_key : \A o \in of_key : o <= i])

\* C9 as stated: every content block that is no sample block is assigned to
\* its first matching key, so each field holds the normalized body of the
\* last block classified to it.
C9_EveryBlockAssigned ==
  pc = "parts" =>
    \A k \in 1..Len(SectionKeys) :
      sections[SectionKeys[k]] = ClaimSection(SubSeq(Parts, 1, idx), SectionKeys[k], IsContentBlock)

\* C9 as amended: the rule holds of the blocks whose normalized body is not
\* empty; a block with an empty body, or one matching no key, changes no
\* field.
C9_AcceptedBlocksAssigned ==
  pc \in {"parts", "done"} =>
    \A k \in 1..Len(SectionKeys) :
      sections[SectionKeys[k]] = ClaimSection(SubSeq(Parts, 1, idx), SectionKeys[k], Accepted)

\* a duplicate heading overwrote the statement, a title with synonyms of two
\* keys went to the first of them
C9_Witness ==
  /\ pc = "parts"
  /\ idx = 3
  /\ Parts[1] = Part("loose", TitleStatement, BodyA)
  /\ Parts[2] = Part("loose", TitleStatement, BodyB)
  /\ Parts[3].title = TitleInputOutput
  /\ sections.statement = <<" ", "B">>
  /\ sections.input_format = <<"C">>
  /\ sections.output_format = <<>>

(***************************************************************************)
(* The endpoint GET /contests/{contest_id}/problems/{problem_id} of        *)
(* main.py.  The handler is a coroutine that never awaits, so one request  *)
(* is one step.  A cached problem is a dict: a function from its keys.     *)
(***************************************************************************)
\* load_cached_data(): the parsed file, [] when there is no file
load_cached_data(file) == IF file.exists THEN file.data ELSE <<>>

\* dict.update
update(d, u) ==
  [k \in DOMAIN d \cup DOMAIN u |-> IF k \in DOMAIN u THEN u[k] ELSE d[k]]

\* the position of the first item with this id, 0 when the for loop runs out
first_index(items, id) ==
  LET hits == {i \in 1..Len(items) : items[i].id = id}
  IN  IF hits = {} THEN 0 ELSE CHOOSE i \in hits : \A j \in hits : i <= j

\* what the site serves for the page of the problem: no answer, or a page
Down == [up |-> FALSE, page |-> NoPage]

Serves(page) == [up |-> TRUE, page |-> page]

\* get_problem_detail as one call: the exception that leaves it, or its result
get_problem_detail(site) ==
  IF ~site.up THEN [raised |-> "ScraperException", result |-> NoResult]
  ELSE IF container_missing(site.page)
  THEN [raised |-> "ScraperException", result |-> NoResult]
  ELSE LET root == select_lang(site.page)
           st == run_parts(root_parts(site.page, root))
       IN  [raised |-> "",
            result |-> ProblemDetailModel(st, extract_time_limit(site.page),
                                          extract_memory_limit(site.page),
                                          extract_score(site.page, root))]

\* the argument of problem.update(...)
detail_fields(problem_detail, clock) ==
  [content |-> [statement |-> problem_detail.statement,
                constraints |-> problem_detail.constraints,
                input_format |-> problem_detail.input_format,
                output_format |-> problem_detail.output_format,
                samples |-> problem_detail.samples],
   time_limit |-> problem_detail.time_limit,
   memory_limit |-> problem_detail.memory_limit,
   last_updated |-> clock]

\* faulty variant: a problem with content is never fetched again
IgnoresForce(problem, force_refresh) == "content" \in DOMAIN problem

\* if not force_refresh and "content" in problem
returns_cached(problem, force_refresh) ==
  ~force_refresh /\ "content" \in DOMAIN problem

Answer(status, problem, detail) ==
  [status |-> status, problem |-> problem, detail |-> detail]

\* what one request does: its answer, whether get_problem_detail was called,
\* and the data dumped to the file when it was written
Outcome(resp, extracted, written, data) ==
  [response |-> resp, extracted |-> extracted, written |-> written, data |-> data]

\* lines 92-110: the record updated, dumped with the rest of data, returned
refreshed(data, c, p, problem_detail, clock) ==
  LET updated == update(data[c].problems[p], detail_fields(problem_detail, clock))
  IN  Outcome(Answer(200, updated, ""), TRUE, TRUE,
              [data EXCEPT ![c].problems[p] = updated])

\* lines 87-112: the try block, given what get_problem_detail did
fetch_and_update(data, c, p, detail, clock) ==
  IF detail.raised # ""
  THEN Outcome(Answer(500, NoProblem, "Error fetching problem details"),
               TRUE, FALSE, data)
  ELSE refreshed(data, c, p, detail.result, clock)

get_problem(data, contest_id, problem_id, force_refresh, site, clock) ==
  LET c == first_index(data, contest_id)
  IN  IF c = 0
      THEN Outcome(Answer(404, NoProblem, "Contest not found"), FALSE, FALSE, data)
      ELSE
        LET p == first_index(data[c].problems, problem_id)
        IN  IF p = 0
            THEN Outcome(Answer(404, NoProblem, "Problem not found"),
                         FALSE, FALSE, data)
            ELSE IF returns_cached(data[c].problems[p], force_refresh)
            THEN Outcome(Answer(200, data[c].problems[p], ""), FALSE, FALSE, data)
            ELSE fetch_and_update(data, c, p, get_problem_detail(site), clock)

(***************************************************************************)
(* The caches, requests and pages the endpoint is run on.                  *)
(***************************************************************************)
ContestIds == {"abc1", "abc2"}

ProblemIds == {"a", "b"}

\* a problem as the contest list gives it, without content
BareProblem(id) == [id |-> id, title |-> "T"]

OldContent ==
  [statement |-> <<"o", "l", "d">>, constraints |-> <<>>, input_format |-> <<>>,
   output_format |-> <<>>, samples |-> <<>>]

\* a problem an earlier request filled in
FilledProblem(id) ==
  update(BareProblem(id),
         [content |-> OldContent, time_limit |-> [whole |-> 1, frac |-> <<>>],
          memory_limit |-> 256, last_updated |-> 0])

\* the problems of the cache before the first request
CachedProblems == {BareProblem("a"), FilledProblem("a"), BareProblem("b")}

UniqueIds(items) ==
  \A i, j \in 1..Len(items) : items[i].id = items[j].id => i = j

ProblemLists ==
  {ps \in UNION {[1..j -> CachedProblems] : j \in 0..MaxProblems} : UniqueIds(ps)}

CachedContests == {[id |-> c, problems |-> ps] : c \in ContestIds, ps \in ProblemLists}

\* the file storage/contests.json before the first request
IsCache(file) ==
  \/ file = NoFile
  \/ \E k \in 0..MaxContests : \E cs \in [1..k -> CachedContests] :
       /\ UniqueIds(cs)
       /\ file = [exists |-> TRUE, data |-> cs]

\* the pages of the site: one without the container, one with a statement,
\* sample pair and limits
ApiPages ==
  {Document(FALSE, {}, <<Part("loose", TitleStatement, BodyA)>>, <<>>),
   Document(TRUE, {},
            <<Part("loose", TitleStatement, BodyA),
              Part("loose", TitleSampleInput, BodyB),
              Part("loose", TitleSampleOutput, BodyC)>>,
            <<TextNode("loose", <<"Time Limit", ":", "2", ".", "5", "0", "/",
                                  "Memory Limit", ":", "6", "4">>)>>)}

Sites == {Down} \cup {Serves(page) : page \in ApiPages}

InitApi ==
  /\ pc = "serve"
  /\ IsCache(storage)
  /\ request = NoRequest
  /\ response = NoResponse
  /\ extractions = 0
  /\ writes = 0
  /\ now = 1
  /\ doc = NoDocument
  /\ lang_content = "none"
  /\ sections = EmptySections
  /\ samples = <<>>
  /\ current_sample = NoSample
  /\ idx = 0
  /\ score = DefaultScore
  /\ time_limit = DefaultTimeLimit
  /\ memory_limit = DefaultMemoryLimit
  /\ result = NoResult
  /\ raised = ""
  /\ body = NoBody
  /\ body0 = NoBody
  /\ outputs = <<>>

\* what a request leaves behind: the answer, the file, the counts
Respond(req, out) ==
  /\ request' = req
  /\ response' = out.response
  /\ storage' = IF out.written THEN [exists |-> TRUE, data |-> out.data]
                ELSE storage
  /\ extractions' = IF out.extracted THEN extractions + 1 ELSE extractions
  /\ writes' = IF out.written THEN writes + 1 ELSE writes

\* one request to get_problem, from load_cached_data to the response
GetProblem ==
  /\ pc = "serve"
  /\ now <= MaxRequests
  /\ \E contest_id \in ContestIds, problem_id \in ProblemIds,
        force_refresh \in BOOLEAN, site \in Sites :
       Respond([contest_id |-> contest_id, problem_id |-> problem_id,
                force_refresh |-> force_refresh, site |-> site],
               get_problem(load_cached_data(storage), contest_id, problem_id,
                           force_refresh, site, now))
  /\ now' = now + 1
  /\ UNCHANGED <<pc, doc, lang_content, sections, samples, current_sample, idx,
                 score, time_limit, memory_limit, result, raised, body, body0,
                 outputs>>

NextApi == GetProblem

SpecApi == InitApi /\ [][NextApi]_vars

(***************************************************************************)
(* Properties of the endpoint, under SpecApi.                              *)
(***************************************************************************)
\* under Spec: the one-call form of get_problem_detail returns what the
\* stepwise form ends with
ExtractionAgrees ==
  /\ pc = "done" => get_problem_detail(Serves(doc)) = [raised |-> "", result |-> result]
  /\ pc = "failed" => get_problem_detail(Serves(doc)).raised = raised

\* the cache holds a contest with this id that holds a problem with this id
Present(data, contest_id, problem_id) ==
  \E c \in 1..Len(data) :
    /\ data[c].id = contest_id
    /\ \E p \in 1..Len(data[c].problems) : data[c].problems[p].id = problem_id

\* the record of that problem in the cache
Cached(data, contest_id, problem_id) ==
  LET c == CHOOSE c \in 1..Len(data) :
             /\ data[c].id = contest_id
             /\ \E p \in 1..Len(data[c].problems) : data[c].problems[p].id = problem_id
      p == CHOOSE p \in 1..Len(data[c].problems) : data[c].problems[p].id = problem_id
  IN  data[c].problems[p]

ExtensionKeys == {"content", "time_limit", "memory_limit", "last_updated"}

\* new is old extended by content, time_limit, memory_limit and last_updated
\* taken from an extraction result
IsExtension(new, old, problem_detail) ==
  /\ DOMAIN new = DOMAIN old \cup ExtensionKeys
  /\ \A k \in DOMAIN old \ ExtensionKeys : new[k] = old[k]
  /\ new["content"] = [statement |-> problem_detail.statement,
                       constraints |-> problem_detail.constraints,
                       input_format |-> problem_detail.input_format,
                       output_format |-> problem_detail.output_format,
                       samples |-> problem_detail.samples]
  /\ new["time_limit"] = problem_detail.time_limit
  /\ new["memory_limit"] = problem_detail.memory_limit

\* C11: for a contest and problem present in the cache, a request with
\* force_refresh calls the extraction and, when the extraction succeeds,
\* answers 200 with the cached record extended by content, time_limit,
\* memory_limit and last_updated and writes that record to the file; a request
\* without force_refresh for a problem that has content answers 200 with the
\* cached record, calls no extraction and writes nothing; and a request whose
\* extraction fails answers 500 and leaves the file as it was.
C11_RefreshContract ==
  [][LET req == request'
         data == load_cached_data(storage)
         extraction == get_problem_detail(req.site)
         ran == extractions' = extractions + 1
     IN  Present(data, req.contest_id, req.problem_id) =>
           LET old == Cached(data, req.contest_id, req.problem_id)
           IN  /\ req.force_refresh => ran
               /\ (req.force_refresh /\ extraction.raised = "") =>
                    /\ response'.status = 200
                    /\ IsExtension(response'.problem, old, extraction.result)
                    /\ storage'.exists
                    /\ Present(storage'.data, req.contest_id, req.problem_id)
                    /\ Cached(storage'.data, req.contest_id, req.problem_id)
                         = response'.problem
                    /\ writes' = writes + 1
               /\ (~req.force_refresh /\ "content" \in DOMAIN old) =>
                    /\ response'.status = 200
                    /\ response'.problem = old
                    /\ extractions' = extractions
                    /\ writes' = writes
                    /\ storage' = storage
               /\ (ran /\ extraction.raised # "") =>
                    /\ response'.status = 500
                    /\ writes' = writes
                    /\ storage' = storage]_vars

\* the second of two requests forced a refresh of a problem of a two-contest
\* cache, both requests extracted with success, and the file holds the record
\* the second request answered with
C11_Witness ==
  /\ now = 3
  /\ request.force_refresh
  /\ response.status = 200
  /\ extractions = 2
  /\ writes = 2
  /\ storage.exists
  /\ Len(storage.data) = 2
  /\ Present(storage.data, request.contest_id, request.problem_id)
  /\ Cached(storage.data, request.contest_id, request.problem_id) = response.problem
  /\ response.problem["last_updated"] = 2
  /\ response.problem["content"].statement # OldContent.statement
  /\ response.problem["content"].samples # <<>>

\* a request without force_refresh was answered from the cache with a record
\* an earlier request had written
C11_ServedFromCache ==
  /\ now = 3
  /\ ~request.force_refresh
  /\ response.status = 200
  /\ extractions = 1
  /\ writes = 1
  /\ response.problem["last_updated"] = 1

\* a request whose extraction failed was answered 500 after an earlier request
\* had written the file
C11_FailureAnswered ==
  /\ response.status = 500
  /\ extractions = 2
  /\ writes = 1

====
